---- MODULE Spec2Model ----
(***************************************************************************)
(* Model of the Ampire AM-4001280ATZQW-00H MIPI-DSI panel driver           *)
(* (src/panel-ampire-am4001280atzqw00h.c).                                 *)
(*                                                                         *)
(* The state is the driver data (prepared / enabled / suspended), the DSI  *)
(* mode flag MIPI_DSI_MODE_LPM, the reset GPIO, the regulator use count    *)
(* and the cached backlight brightness.  Every driver entry point is one   *)
(* action; the hardware calls it makes are appended to `log`, its return   *)
(* value is `ret`.  Fallible external calls (regulator, DSI transfers,     *)
(* backlight core) are numbered in the order the handler makes them; the   *)
(* input F is the set of call numbers that fail and e the negative errno   *)
(* they fail with.                                                         *)
(***************************************************************************)
EXTENDS Integers, Sequences, FiniteSets, TLC

VARIABLES prepared, enabled, suspended, lpm, reset_pin, reset_val, supply,
          brightness, connector, op, arg, ret, log, hist, host_prepared, th

vars == <<prepared, enabled, suspended, lpm, reset_pin, reset_val, supply,
          brightness, connector, op, arg, ret, log, hist, host_prepared, th>>

----------------------------------------------------------------------------
(* Bounds *)

\* number of entries of mcs_am40001280 that are replayed in the model
MCSLen == 3
\* largest regulator use count reached (prepare never refuses, so the
\* count is unbounded in the code)
MaxSupply == 2
\* longest entry list handed to push_cmd_list on its own
MaxN == 3
\* resolution of ktime_t in the model: clock ticks per millisecond
TicksPerMs == 2
\* latest clock value (in ticks) and longest minimum wait (in ms) handed
\* to am4001280atzqw00h_wait
MaxTime == 4
MaxMs == 2
\* largest number of modes added to the connector (get_modes never
\* refuses, so the probed list is unbounded in the code)
MaxModes == 2

----------------------------------------------------------------------------
(* Program constants *)

\* negative errno values an external call fails with (-EIO, -ETIMEDOUT)
ErrCodes == {-5, -110}

BL_INIT_BRIGHTNESS == 200
BL_MAX_BRIGHTNESS == 255

\* the head of the table mcs_am40001280[]
McsHead ==
    << <<176, 90>>, <<177, 0>>, <<137, 1>>, <<145, 7>>,
       <<146, 249>>, <<177, 3>>, <<44, 40>>, <<0, 183>> >>

mcs_am40001280 == SubSeq(McsHead, 1, MCSLen)

\* am4001280atzqw00h_mode (the fields get_modes copies to the connector)
\* and the bus flags of am4001280atzqw00h_data
am4001280atzqw00h_mode == [hdisplay |-> 400, vdisplay |-> 1280,
                           width_mm |-> 190, height_mm |-> 59]

am4001280atzqw00h_bus_flags == {"DE_LOW", "PIXDATA_DRIVE_NEGEDGE"}

am4001280atzqw00h_bus_formats ==
    <<"MEDIA_BUS_FMT_RGB888_1X24", "MEDIA_BUS_FMT_RGB666_1X18",
      "MEDIA_BUS_FMT_RGB565_1X16">>

\* values offered to the backlight interface and reported by the panel
Levels == {0, 128, BL_MAX_BRIGHTNESS}
RawVals == {128, 511}

----------------------------------------------------------------------------
(* Call context: the driver and hardware state a handler works on, the     *)
(* hardware actions it performed (log), the number of fallible external    *)
(* calls made so far (n) and the value it is about to return (ret).        *)

\* one hardware action: kind, name or address, argument, value returned
Ev(k, a, b, r) == [k |-> k, a |-> a, b |-> b, r |-> r, ok |-> r >= 0]

Cur == [prepared |-> prepared, enabled |-> enabled, suspended |-> suspended,
        lpm |-> lpm, reset_pin |-> reset_pin, reset_val |-> reset_val,
        supply |-> supply, brightness |-> brightness,
        connector |-> connector,
        log |-> <<>>, n |-> 0, ret |-> 0]

Ret(c, v) == [c EXCEPT !.ret = v]

\* an infallible hardware action
Emit(c, k, a, b) == [c EXCEPT !.log = Append(@, Ev(k, a, b, 0))]

\* a fallible external call: succeeds with `good`, fails with e
Ext(c, k, a, b, good, F, e) ==
    LET r == IF (c.n + 1) \notin F THEN good ELSE e
    IN [c EXCEPT !.n = @ + 1,
                 !.log = Append(@, Ev(k, a, b, r)),
                 !.ret = r]

\* usleep_range / msleep
Delay(c, ms) == Emit(c, "delay", "ms", ms)

\* gpiod_set_value_cansleep: a no-op on an absent (NULL) descriptor
GpiodSet(c, v) ==
    IF c.reset_pin
    THEN [Emit(c, "gpio", "reset", v) EXCEPT !.reset_val = v]
    ELSE c

\* dsi->mode_flags |= MIPI_DSI_MODE_LPM / &= ~MIPI_DSI_MODE_LPM
SetLpm(c, v) == [Emit(c, "mode", "lpm", v) EXCEPT !.lpm = v]

\* mipi_dsi_dcs_*: 0 or a negative errno
Dcs(c, name, b, F, e) == Ext(c, "dcs", name, b, 0, F, e)

\* mipi_dsi_generic_write of a two-byte buffer: 2 or a negative errno
GenericWrite(c, entry, F, e) == Ext(c, "gen", entry[1], entry[2], 2, F, e)

\* regulator_bulk_enable
RegulatorBulkEnable(c, F, e) ==
    LET c1 == Ext(c, "reg", "enable", 0, 0, F, e)
    IN IF c1.ret < 0 THEN c1 ELSE [c1 EXCEPT !.supply = @ + 1]

\* regulator_bulk_disable: an unbalanced disable is refused with -EIO
RegulatorBulkDisable(c, F, e) ==
    LET FF == IF c.supply = 0 THEN F \cup {c.n + 1} ELSE F
        ee == IF c.supply = 0 THEN -5 ELSE e
        c1 == Ext(c, "reg", "disable", 0, 0, FF, ee)
    IN IF c1.ret < 0 THEN c1 ELSE [c1 EXCEPT !.supply = @ - 1]

\* backlight_enable / backlight_disable of the backlight core
BacklightEnable(c, F, e) == Ext(c, "bl", "enable", 0, 0, F, e)
BacklightDisable(c, F, e) == Ext(c, "bl", "disable", 0, 0, F, e)

----------------------------------------------------------------------------
(* push_cmd_list *)

RECURSIVE PushFrom(_, _, _, _, _, _)
PushFrom(c, cmd_set, count, i, F, e) ==
    IF i >= count
    THEN Ret(c, 0)
    ELSE LET c1 == GenericWrite(c, cmd_set[i + 1], F, e)
         IN IF c1.ret < 0 THEN c1
            ELSE PushFrom(c1, cmd_set, count, i + 1, F, e)

\* mutant: the loop does not return at a failing write
RECURSIVE PushAll(_, _, _, _, _, _, _)
PushAll(c, cmd_set, count, i, F, e, r) ==
    IF i >= count
    THEN Ret(c, r)
    ELSE LET c1 == GenericWrite(c, cmd_set[i + 1], F, e)
         IN PushAll(c1, cmd_set, count, i + 1, F, e,
                    IF c1.ret < 0 THEN c1.ret ELSE r)

push_cmd_list_no_return(c, cmd_set, count, F, e) ==
    PushAll(c, cmd_set, count, 0, F, e, 0)

push_cmd_list(c, cmd_set, count, F, e) == PushFrom(c, cmd_set, count, 0, F, e)

----------------------------------------------------------------------------
(* Handlers *)

\* mutant: the result of regulator_bulk_enable is not tested
am4001280atzqw00h_prepare_unchecked(c, F, e) ==
    IF c.prepared THEN Ret(c, 1)
    ELSE LET c1 == RegulatorBulkEnable(c, F, e)
             c2 == Delay(c1, 10)
             c3 == IF c2.reset_pin
                   THEN Delay(GpiodSet(c2, 0), 50)
                   ELSE c2
         IN Ret(c3, 0)

am4001280atzqw00h_prepare(c, F, e) ==
    IF c.prepared THEN Ret(c, 1)
    ELSE LET c1 == RegulatorBulkEnable(c, F, e)
         IN IF c1.ret < 0 THEN c1
            ELSE LET c2 == Delay(c1, 10)
                     c3 == IF c2.reset_pin
                           THEN Delay(GpiodSet(c2, 0), 50)
                           ELSE c2
                 IN Ret(c3, 0)

am4001280atzqw00h_unprepare(c, F, e) ==
    IF c.prepared THEN Ret(c, 1)
    ELSE LET c1 == IF c.reset_pin
                   THEN GpiodSet(Delay(GpiodSet(c, 1), 15), 0)
                   ELSE c
             c2 == RegulatorBulkDisable(c1, F, e)
         IN IF c2.ret < 0 THEN c2
            ELSE Ret([c2 EXCEPT !.prepared = FALSE], 0)

am4001280atzqw00h_suspend(c, F, e) ==
    IF c.suspended THEN Ret(c, 1)
    ELSE LET c1 == Dcs(c, "enter_sleep_mode", 0, F, e)
         IN IF c1.ret < 0 THEN c1 ELSE Ret(c1, 0)

am4001280atzqw00h_resume(c, F, e) ==
    IF ~c.suspended THEN Ret(c, 1)
    ELSE LET c1 == Dcs(c, "exit_sleep_mode", 0, F, e)
         IN IF c1.ret < 0 THEN c1 ELSE Ret(c1, 0)

\* the label fail: of am4001280atzqw00h_platform_enable
EnableFail(c) == Ret(GpiodSet(c, 1), c.ret)

am4001280atzqw00h_platform_enable(c, F, e) ==
    IF c.enabled THEN Ret(c, 1)
    ELSE
    LET c1 == Dcs(c, "soft_reset", 0, F, e) IN
    IF c1.ret < 0 THEN EnableFail(c1) ELSE
    LET c2 == am4001280atzqw00h_suspend(SetLpm(c1, TRUE), F, e) IN
    IF c2.ret < 0 THEN EnableFail(c2) ELSE
    LET c3 == Dcs(c2, "set_display_off", 0, F, e) IN
    IF c3.ret < 0 THEN EnableFail(c3) ELSE
    LET c4 == push_cmd_list(c3, mcs_am40001280, Len(mcs_am40001280), F, e) IN
    IF c4.ret < 0 THEN EnableFail(c4) ELSE
    LET c5 == am4001280atzqw00h_resume(c4, F, e) IN
    IF c5.ret < 0 THEN EnableFail(c5) ELSE
    LET c6 == Dcs(Delay(c5, 5), "set_display_on", 0, F, e) IN
    IF c6.ret < 0 THEN EnableFail(c6) ELSE
    LET c7 == BacklightEnable(c6, F, e) IN
    Ret([c7 EXCEPT !.enabled = TRUE], 0)

am4001280atzqw00h_disable(c, F, e) ==
    IF c.enabled THEN Ret(c, 1)
    ELSE
    LET c1 == BacklightDisable(c, F, e) IN
    IF c1.ret < 0 THEN c1 ELSE
    LET c2 == Dcs(SetLpm(Delay(c1, 10), FALSE), "set_display_off", 0, F, e) IN
    IF c2.ret < 0 THEN c2 ELSE
    LET c3 == am4001280atzqw00h_suspend(c2, F, e) IN
    IF c3.ret < 0 THEN Ret(SetLpm(c3, TRUE), c3.ret)
    ELSE Ret([SetLpm(c3, TRUE) EXCEPT !.enabled = FALSE], 0)

am4001280atzqw00h_backlight_update_status(c, F, e) ==
    IF ~c.prepared THEN Ret(c, 0)
    ELSE LET c1 == Dcs(c, "set_display_brightness", c.brightness, F, e)
         IN IF c1.ret < 0 THEN c1 ELSE Ret(c1, 0)

am4001280atzqw00h_get_backlight_brightness(c, raw, F, e) ==
    IF ~c.prepared THEN Ret(c, 0)
    ELSE LET c1 == Dcs(c, "get_display_brightness", 0, F, e)
         IN IF c1.ret < 0 THEN c1
            ELSE Ret([c1 EXCEPT !.brightness = raw], raw % 256)

\* both results are only logged: shutdown returns nothing
am4001280atzqw00h_shutdown(c, F, e) ==
    LET c1 == am4001280atzqw00h_disable(c, F, e)
        c2 == am4001280atzqw00h_unprepare(c1, F, e)
    IN Ret(c2, 0)

\* mutant: a failed enter-idle command does not end the wait
am4001280atzqw00h_wait_no_return(c, start_ktime, min_ms, now_ktime, F, e) ==
    IF min_ms = 0 THEN Ret(c, 1)
    ELSE LET min_ktime == start_ktime + min_ms * TicksPerMs
             c1 == Dcs(c, "enter_idle_mode", 0, F, e)
             c2 == IF now_ktime < min_ktime
                   THEN Delay(c1, ((min_ktime - now_ktime) \div TicksPerMs) + 1)
                   ELSE c1
             c3 == Dcs(c2, "exit_idle_mode", 0, F, e)
         IN IF c3.ret < 0 THEN c3 ELSE Ret(c3, 0)

\* now_ktime is the value ktime_get() returns at line 670
am4001280atzqw00h_wait(c, start_ktime, min_ms, now_ktime, F, e) ==
    IF min_ms = 0 THEN Ret(c, 1)
    ELSE LET min_ktime == start_ktime + min_ms * TicksPerMs
             c1 == Dcs(c, "enter_idle_mode", 0, F, e)
         IN IF c1.ret < 0 THEN c1
            ELSE LET c2 == IF now_ktime < min_ktime
                           THEN Delay(c1, ((min_ktime - now_ktime)
                                               \div TicksPerMs) + 1)
                           ELSE c1
                     c3 == Dcs(c2, "exit_idle_mode", 0, F, e)
                 IN IF c3.ret < 0 THEN c3 ELSE Ret(c3, 0)

\* mutant: the NULL result of drm_mode_duplicate is not tested
am4001280atzqw00h_get_modes_unchecked(c, F) ==
    LET c1 == Ext(c, "mem", "drm_mode_duplicate", 0, 0, F, -12)
    IN Ret([c1 EXCEPT !.connector =
                [modes |-> @.modes + 1,
                 width_mm |-> am4001280atzqw00h_mode.width_mm,
                 height_mm |-> am4001280atzqw00h_mode.height_mm,
                 bus_flags |-> am4001280atzqw00h_bus_flags,
                 bus_formats |-> am4001280atzqw00h_bus_formats]], 1)

\* drm_mode_duplicate returns NULL when the allocation fails (call in F);
\* the handler then returns -ENOMEM
am4001280atzqw00h_get_modes(c, F) ==
    LET c1 == Ext(c, "mem", "drm_mode_duplicate", 0, 0, F, -12)
    IN IF ~c1.log[Len(c1.log)].ok THEN Ret(c1, -12)
       ELSE Ret([c1 EXCEPT !.connector =
                    [modes |-> @.modes + 1,
                     width_mm |-> am4001280atzqw00h_mode.width_mm,
                     height_mm |-> am4001280atzqw00h_mode.height_mm,
                     bus_flags |-> am4001280atzqw00h_bus_flags,
                     bus_formats |-> am4001280atzqw00h_bus_formats]], 1)

----------------------------------------------------------------------------
(* Specification *)

\* the threads that may call into the driver at the same time
Threads == {1, 2}

\* a thread outside the driver
Idle == [op |-> "none", pc |-> "idle", ret |-> 0, i |-> 0, cmds |-> 0]

\* a connector before the first get_modes
NoDisplayInfo ==
    [modes |-> 0, width_mm |-> 0, height_mm |-> 0, bus_flags |-> {},
     bus_formats |-> <<>>]

\* the state after am4001280atzqw00h_probe
Init ==
    /\ prepared = FALSE
    /\ enabled = FALSE
    /\ suspended = FALSE
    /\ lpm = FALSE
    /\ reset_pin \in BOOLEAN
    /\ reset_val = IF reset_pin THEN 1 ELSE 0
    /\ supply = 0
    /\ brightness = BL_INIT_BRIGHTNESS
    /\ connector = NoDisplayInfo
    /\ th = [t \in Threads |-> Idle]
    /\ op = "probe"
    /\ arg = 0
    /\ ret = 0
    /\ log = <<>>
    /\ hist = <<>>
    /\ host_prepared = FALSE

(* History variable.  hist is the longest suffix of the sequence of calls  *)
(* made so far (the call just made included) whose operation names form a  *)
(* prefix of one of the call sequences below and in which no external call *)
(* failed; each call is summarised by its name, its return value and the   *)
(* number of command-set writes it made.                                   *)
Scenarios ==
    { <<"prepare", "enable", "disable", "enable">> }

IsPrefix(s, t) == Len(s) <= Len(t) /\ SubSeq(t, 1, Len(s)) = s

OpsOf(h) == [i \in 1..Len(h) |-> h[i].op]

Tracked(h) ==
    /\ \E sc \in Scenarios : IsPrefix(OpsOf(h), sc)
    /\ \A i \in 1..Len(h) : h[i].clean

Count(l, P(_)) == Cardinality({i \in 1..Len(l) : P(l[i])})

IsWrite(ev) == ev.k = "gen" /\ ev.ok
IsFailure(ev) == ~ev.ok
IsBus(ev) == ev.k \in {"dcs", "gen"}

Summary(name, c) ==
    [op |-> name, ret |-> c.ret, writes |-> Count(c.log, IsWrite),
     clean |-> Count(c.log, IsFailure) = 0]

Past(cur) ==
    LET h == Append(hist, cur)
        ks == {k \in 1..Len(h) : Tracked(SubSeq(h, k, Len(h)))}
    IN IF ks = {} THEN <<>>
       ELSE SubSeq(h, CHOOSE k \in ks : \A j \in ks : k <= j, Len(h))

(* History variable: the host's view of the panel.  host_prepared holds    *)
(* when the last of prepare and unprepare to return 0 was prepare.         *)
HostPrepared(name, c) ==
    IF name = "prepare" /\ c.ret = 0 THEN TRUE
    ELSE IF name = "unprepare" /\ c.ret = 0 THEN FALSE
    ELSE host_prepared

\* the handler returned context c: its effects become the new state; no
\* call reaches the driver after shutdown (the system is going down)
Commit(name, a, c) ==
    /\ op # "shutdown"
    /\ prepared' = c.prepared
    /\ enabled' = c.enabled
    /\ suspended' = c.suspended
    /\ lpm' = c.lpm
    /\ reset_val' = c.reset_val
    /\ supply' = c.supply
    /\ brightness' = c.brightness
    /\ connector' = c.connector
    /\ op' = name
    /\ arg' = a
    /\ ret' = c.ret
    /\ log' = c.log
    /\ hist' = Past(Summary(name, c))
    /\ host_prepared' = HostPrepared(name, c)
    /\ UNCHANGED <<reset_pin, th>>

\* at most one of the m calls a handler makes fails: <<F, e>>
OneFailure(m) == {<<{}, -5>>} \cup ({{i} : i \in 1..m} \X ErrCodes)

Prepare ==
    \E fe \in OneFailure(1) :
        LET c == am4001280atzqw00h_prepare(Cur, fe[1], fe[2])
        IN /\ c.supply <= MaxSupply
           /\ Commit("prepare", 0, c)

Unprepare ==
    \E fe \in OneFailure(1) :
        Commit("unprepare", 0, am4001280atzqw00h_unprepare(Cur, fe[1], fe[2]))

Suspend ==
    \E fe \in OneFailure(1) :
        Commit("suspend", 0, am4001280atzqw00h_suspend(Cur, fe[1], fe[2]))

Resume ==
    \E fe \in OneFailure(1) :
        Commit("resume", 0, am4001280atzqw00h_resume(Cur, fe[1], fe[2]))

Enable ==
    \E fe \in OneFailure(MCSLen + 6) :
        Commit("enable", 0, am4001280atzqw00h_platform_enable(Cur, fe[1], fe[2]))

Disable ==
    \E fe \in OneFailure(3) :
        Commit("disable", 0, am4001280atzqw00h_disable(Cur, fe[1], fe[2]))

\* the backlight core stores the requested level, then calls update_status
SetBrightness ==
    \E level \in Levels, fe \in OneFailure(1) :
        Commit("set_brightness", level,
               am4001280atzqw00h_backlight_update_status(
                   [Cur EXCEPT !.brightness = level], fe[1], fe[2]))

GetBrightness ==
    \E raw \in RawVals, fe \in OneFailure(1) :
        Commit("get_brightness", raw,
               am4001280atzqw00h_get_backlight_brightness(Cur, raw, fe[1], fe[2]))

\* up to two of the four calls shutdown makes fail
TwoFailures(m) ==
    {F \in SUBSET (1..m) : Cardinality(F) <= 2} \X ErrCodes

Shutdown ==
    \E fe \in TwoFailures(4) :
        Commit("shutdown", 0, am4001280atzqw00h_shutdown(Cur, fe[1], fe[2]))

GetModes ==
    \E F \in {{}, {1}} :
        LET c == am4001280atzqw00h_get_modes(Cur, F)
        IN /\ c.connector.modes <= MaxModes
           /\ Commit("get_modes", 0, c)

\* push_cmd_list on its own, over any short entry list and any failing bus:
\* the inputs are drawn by InitPush, PushCmdList applies the function
Entries == { <<176, 90>>, <<177, 0>>, <<177, 3>> }

SeqsUpTo(S, m) == UNION {[1..k -> S] : k \in 0..m}

PushInputs ==
    [entries : SeqsUpTo(Entries, MaxN), F : SUBSET (1..MaxN), e : ErrCodes]

InitPush ==
    /\ prepared = FALSE
    /\ enabled = FALSE
    /\ suspended = FALSE
    /\ lpm = FALSE
    /\ reset_pin = TRUE
    /\ reset_val = 1
    /\ supply = 0
    /\ brightness = BL_INIT_BRIGHTNESS
    /\ connector = NoDisplayInfo
    /\ th = [t \in Threads |-> Idle]
    /\ op = "input"
    /\ arg \in PushInputs
    /\ ret = 0
    /\ log = <<>>
    /\ hist = <<>>
    /\ host_prepared = FALSE

PushCmdList ==
    /\ op = "input"
    /\ Commit("push_cmd_list", arg,
              push_cmd_list(Cur, arg.entries, Len(arg.entries), arg.F, arg.e))

Next ==
    \/ Prepare
    \/ Unprepare
    \/ Suspend
    \/ Resume
    \/ Enable
    \/ Disable
    \/ SetBrightness
    \/ GetBrightness
    \/ GetModes
    \/ Shutdown

Spec == Init /\ [][Next]_vars

SpecPush == InitPush /\ [][PushCmdList]_vars

\* am4001280atzqw00h_wait is not reachable through am4001280atzqw00h_funcs;
\* it is exercised on its own, over any reference time, clock value,
\* minimum wait and failing bus
WaitInputs ==
    [start : 0..MaxTime, min_ms : 0..MaxMs, now : 0..MaxTime,
     F : SUBSET (1..2), e : ErrCodes]

InitWait ==
    /\ prepared = FALSE
    /\ enabled = FALSE
    /\ suspended = FALSE
    /\ lpm = FALSE
    /\ reset_pin = TRUE
    /\ reset_val = 1
    /\ supply = 0
    /\ brightness = BL_INIT_BRIGHTNESS
    /\ connector = NoDisplayInfo
    /\ th = [t \in Threads |-> Idle]
    /\ op = "input"
    /\ arg \in WaitInputs
    /\ ret = 0
    /\ log = <<>>
    /\ hist = <<>>
    /\ host_prepared = FALSE

Wait ==
    /\ op = "input"
    /\ Commit("wait", arg,
              am4001280atzqw00h_wait(Cur, arg.start, arg.min_ms, arg.now,
                                     arg.F, arg.e))

SpecWait == InitWait /\ [][Wait]_vars

----------------------------------------------------------------------------
(* Concurrent callers.  The driver takes no lock (drv_data->lock is never  *)
(* locked), so a handler running in one thread is interleaved with the     *)
(* handlers of other threads at every access to the shared driver data and *)
(* at every bus transfer.  th[t] is the position of thread t: the handler  *)
(* it runs (op), the next statement (pc), its local ret, the loop index of *)
(* push_cmd_list (i) and the number of DSI transfers the call has made so  *)
(* far (cmds).                                                             *)

\* what a DSI transfer or a backlight core call returns
Results == {0} \cup ErrCodes

At(t, pc, r, k) == [th[t] EXCEPT !.pc = pc, !.ret = r, !.cmds = @ + k]

\* thread t has returned r
Done(t, r) == [op |-> th[t].op, pc |-> "idle", ret |-> r, i |-> 0, cmds |-> 0]

\* one statement of thread t: its new position and the shared data after it
Do(t, new, en, lp, rv) ==
    /\ th' = [th EXCEPT ![t] = new]
    /\ enabled' = en
    /\ lpm' = lp
    /\ reset_val' = rv
    /\ UNCHANGED <<prepared, suspended, reset_pin, supply, brightness,
                   connector, op, arg, ret, log, hist, host_prepared>>

Goto(t, pc, r) == Do(t, At(t, pc, r, 0), enabled, lpm, reset_val)

Leave(t, r) == Do(t, Done(t, r), enabled, lpm, reset_val)

\* a DSI transfer: `if (ret < 0) goto/return`
Bus(t, next, onfail) ==
    \E r \in Results :
        IF r >= 0 THEN Do(t, At(t, next, r, 1), enabled, lpm, reset_val)
        ELSE IF onfail = "idle" THEN Leave(t, r)
        ELSE Do(t, At(t, onfail, r, 1), enabled, lpm, reset_val)

Entry(o) ==
    CASE o = "enable" -> "en_check"
      [] o = "disable" -> "di_check"
      [] o = "set_brightness" -> "bl_check"

\* a thread enters a handler; the backlight core stores the requested
\* level and serialises update_status calls under its ops_lock
Call(t) ==
    /\ th[t].pc = "idle"
    /\ \E o \in {"enable", "disable", "set_brightness"} :
        /\ th' = [th EXCEPT ![t] = [op |-> o, pc |-> Entry(o), ret |-> 0,
                                    i |-> 0, cmds |-> 0]]
        /\ IF o = "set_brightness"
           THEN /\ \A u \in Threads : th[u].pc \notin {"bl_check", "bl_write"}
                /\ \E level \in Levels : brightness' = level
           ELSE UNCHANGED brightness
    /\ UNCHANGED <<prepared, enabled, suspended, lpm, reset_pin, reset_val,
                   supply, connector, op, arg, ret, log, hist, host_prepared>>

\* am4001280atzqw00h_platform_enable, statement by statement
EnableStep(t) ==
    LET s == th[t] IN
    /\ s.op = "enable"
    /\ s.pc # "idle"
    /\ CASE s.pc = "en_check" ->
              IF enabled THEN Leave(t, 1) ELSE Goto(t, "en_soft_reset", 0)
         [] s.pc = "en_soft_reset" -> Bus(t, "en_lpm", "en_fail")
         [] s.pc = "en_lpm" ->
              Do(t, At(t, "en_susp_check", s.ret, 0), enabled, TRUE, reset_val)
         [] s.pc = "en_susp_check" ->
              IF suspended THEN Goto(t, "en_dispoff", 1)
              ELSE Goto(t, "en_sleep", s.ret)
         [] s.pc = "en_sleep" -> Bus(t, "en_dispoff", "en_fail")
         [] s.pc = "en_dispoff" -> Bus(t, "en_mcs", "en_fail")
         [] s.pc = "en_mcs" ->
              IF s.i >= Len(mcs_am40001280) THEN Goto(t, "en_res_check", 0)
              ELSE \E r \in {2} \cup ErrCodes :
                     IF r < 0
                     THEN Do(t, At(t, "en_fail", r, 1), enabled, lpm, reset_val)
                     ELSE Do(t, [At(t, "en_mcs", r, 1) EXCEPT !.i = @ + 1],
                             enabled, lpm, reset_val)
         [] s.pc = "en_res_check" ->
              IF ~suspended THEN Goto(t, "en_dispon", 1)
              ELSE Goto(t, "en_wake", s.ret)
         [] s.pc = "en_wake" -> Bus(t, "en_dispon", "en_fail")
         [] s.pc = "en_dispon" -> Bus(t, "en_bl", "en_fail")
         [] s.pc = "en_bl" -> Goto(t, "en_set", s.ret)
         [] s.pc = "en_set" -> Do(t, Done(t, 0), TRUE, lpm, reset_val)
         [] s.pc = "en_fail" ->
              Do(t, Done(t, s.ret), enabled, lpm,
                 IF reset_pin THEN 1 ELSE reset_val)

\* am4001280atzqw00h_disable, statement by statement
DisableStep(t) ==
    LET s == th[t] IN
    /\ s.op = "disable"
    /\ s.pc # "idle"
    /\ CASE s.pc = "di_check" ->
              IF enabled THEN Leave(t, 1) ELSE Goto(t, "di_bl", 0)
         [] s.pc = "di_bl" ->
              \E r \in Results :
                  IF r < 0 THEN Leave(t, r) ELSE Goto(t, "di_hp", r)
         [] s.pc = "di_hp" ->
              Do(t, At(t, "di_dispoff", s.ret, 0), enabled, FALSE, reset_val)
         [] s.pc = "di_dispoff" -> Bus(t, "di_susp_check", "idle")
         [] s.pc = "di_susp_check" ->
              IF suspended THEN Goto(t, "di_lp", 1)
              ELSE Goto(t, "di_sleep", s.ret)
         [] s.pc = "di_sleep" -> Bus(t, "di_lp", "di_fail")
         [] s.pc = "di_lp" ->
              Do(t, At(t, "di_clear", s.ret, 0), enabled, TRUE, reset_val)
         [] s.pc = "di_clear" -> Do(t, Done(t, 0), FALSE, lpm, reset_val)
         [] s.pc = "di_fail" -> Do(t, Done(t, s.ret), enabled, TRUE, reset_val)

\* am4001280atzqw00h_backlight_update_status, statement by statement
BacklightStep(t) ==
    LET s == th[t] IN
    /\ s.op = "set_brightness"
    /\ s.pc # "idle"
    /\ CASE s.pc = "bl_check" ->
              IF ~prepared THEN Leave(t, 0) ELSE Goto(t, "bl_write", 0)
         [] s.pc = "bl_write" ->
              \E r \in Results : Leave(t, IF r < 0 THEN r ELSE 0)

NextConc ==
    \E t \in Threads :
        \/ Call(t)
        \/ EnableStep(t)
        \/ DisableStep(t)
        \/ BacklightStep(t)

SpecConc == Init /\ [][NextConc]_vars

----------------------------------------------------------------------------
(* Properties *)

Has(l, k, a) == \E i \in 1..Len(l) : l[i].k = k /\ l[i].a = a
NoBus(l) == Count(l, IsBus) = 0
Clean(l) == Count(l, IsFailure) = 0

(* C1: a prepare that starts unprepared and returns 0 leaves prepared set, *)
(* and a prepare that directly follows a successful prepare is refused     *)
(* and does not enable the supplies again.                                 *)
C1_PrepareMarksPrepared ==
    [][ /\ (~prepared /\ op' = "prepare" /\ ret' = 0) => prepared'
        /\ (op = "prepare" /\ ret = 0 /\ op' = "prepare")
              => (ret' # 0 /\ supply' = supply /\ ~Has(log', "reg", "enable"))
      ]_vars

(* C2: unprepare on a prepared, not enabled panel runs the power-down      *)
(* sequence and ends unprepared; unprepare on a panel that is not prepared *)
(* fails and touches neither the reset line nor the supplies.              *)
C2_UnprepareRequiresPrepared ==
    [][ /\ (prepared /\ ~enabled /\ op' = "unprepare" /\ Clean(log'))
              => (ret' = 0 /\ ~prepared' /\ Has(log', "reg", "disable"))
        /\ (~prepared /\ op' = "unprepare")
              => (ret' # 0 /\ ~Has(log', "gpio", "reset")
                           /\ ~Has(log', "reg", "disable")
                           /\ supply' = supply /\ reset_val' = reset_val)
      ]_vars

(* C3: enable on a panel that is not prepared, or is already enabled,      *)
(* fails, issues no bus command, keeps the signaling mode and the flags.   *)
C3_EnableRequiresPrepared ==
    [][ (op' = "enable" /\ (~prepared \/ enabled))
          => (ret' # 0 /\ NoBus(log') /\ lpm' = lpm
              /\ <<prepared, enabled, suspended>>' = <<prepared, enabled, suspended>>)
      ]_vars

(* C4: disable on an enabled panel with every call succeeding disables the *)
(* backlight, issues display-off and enter-sleep and clears enabled;       *)
(* disable on a panel that is not enabled fails and performs no backlight, *)
(* bus or signaling-mode action.                                           *)
C4_DisableRequiresEnabled ==
    [][ /\ (enabled /\ op' = "disable" /\ Clean(log'))
              => (ret' = 0 /\ ~enabled'
                  /\ Has(log', "bl", "disable")
                  /\ Has(log', "dcs", "set_display_off")
                  /\ Has(log', "dcs", "enter_sleep_mode"))
        /\ (~enabled /\ op' = "disable")
              => (ret' # 0 /\ NoBus(log') /\ ~Has(log', "bl", "disable")
                  /\ ~Has(log', "mode", "lpm") /\ lpm' = lpm)
      ]_vars

(* C5: after a successful prepare, enable; disable; enable with no failing *)
(* external call ends enabled, all three calls return 0 and each enable    *)
(* writes the whole command set once.                                      *)
C5_EnableDisableEnable ==
    (OpsOf(hist) = <<"prepare", "enable", "disable", "enable">>
        /\ hist[1].ret = 0)
      => /\ enabled
         /\ \A i \in 2..4 : hist[i].ret = 0
         /\ hist[2].writes = MCSLen
         /\ hist[4].writes = MCSLen

(* C6: enabled implies prepared in every reachable state.                  *)
C6_EnabledImpliesPrepared == enabled => prepared

\* enable: bus command i of the call failed
BusFailedAt(i) == IsBus(log[i]) /\ ~log[i].ok

\* enable: the command set was written, and sleep mode was not exited
SleepExitFailed ==
    /\ Count(log, IsWrite) = MCSLen
    /\ ~\E i \in 1..Len(log) :
           log[i].k = "dcs" /\ log[i].a = "exit_sleep_mode" /\ log[i].ok

(* C7: when a step of enable fails (a bus command of it fails, or its     *)
(* sleep-exit step after the command set does not exit sleep), enable      *)
(* asserts the reset line, returns that step's error, issues no bus        *)
(* command after the failed step and does not mark the panel enabled.      *)
C7_EnableRollback ==
    (op = "enable" /\ (SleepExitFailed \/ \E i \in 1..Len(log) : BusFailedAt(i)))
      => /\ ret # 0
         /\ ~enabled
         /\ reset_pin => reset_val = 1
         /\ \A i \in 1..Len(log) :
               BusFailedAt(i)
                  => (ret = log[i].r /\ \A j \in (i + 1)..Len(log) : ~IsBus(log[j]))
         /\ SleepExitFailed => ~Has(log, "dcs", "set_display_on")

(* C8: set-brightness while the host has not prepared the panel returns 0  *)
(* without a bus command; set-brightness after a successful prepare and    *)
(* enable issues exactly one set-brightness command carrying the level.    *)
C8_SetBrightness ==
    op = "set_brightness"
      => /\ ~host_prepared => (ret = 0 /\ NoBus(log))
         /\ (host_prepared /\ enabled)
              => /\ Count(log, IsBus) = 1
                 /\ log[1].k = "dcs" /\ log[1].a = "set_display_brightness"
                 /\ log[1].b = arg

(* C9: get-brightness after a successful prepare issues one get-brightness *)
(* command and, when it succeeds, returns the reported value modulo 256;   *)
(* while the host has not prepared the panel it returns 0 without a bus    *)
(* command.                                                                *)
C9_GetBrightness ==
    op = "get_brightness"
      => /\ host_prepared
              => /\ Count(log, IsBus) = 1
                 /\ log[1].k = "dcs" /\ log[1].a = "get_display_brightness"
                 /\ log[1].ok => ret = arg % 256
         /\ ~host_prepared => (ret = 0 /\ NoBus(log))

(* C10: push_cmd_list over N entries with first failing write k writes     *)
(* entries before k once each in table order as (address, value) writes,   *)
(* attempts entry k once and nothing after it, and returns that failure;   *)
(* with no failing write it writes all N entries in order and returns 0.   *)
C10_PushCmdList ==
    op = "push_cmd_list"
      => LET es == arg.entries
             N == Len(es)
             bad == arg.F \cap (1..N)
             W(i, ok) == Ev("gen", es[i][1], es[i][2], IF ok THEN 2 ELSE arg.e)
         IN IF bad = {}
            THEN log = [i \in 1..N |-> W(i, TRUE)] /\ ret = 0
            ELSE LET k == CHOOSE x \in bad : \A y \in bad : x <= y
                 IN /\ log = [i \in 1..k |-> W(i, i < k)]
                    /\ ret = arg.e
                    /\ ret < 0

C10_Witness ==
    /\ op = "push_cmd_list"
    /\ Len(arg.entries) = 3
    /\ arg.entries[1] = arg.entries[3]
    /\ arg.F = {2, 3}
    /\ Len(log) = 2
    /\ log[1].ok /\ ~log[2].ok
    /\ ret = arg.e

\* position of the first (k, a) action in a log, 0 when there is none
First(l, k, a) ==
    LET is == {i \in 1..Len(l) : l[i].k = k /\ l[i].a = a}
    IN IF is = {} THEN 0 ELSE CHOOSE i \in is : \A j \in is : i <= j

\* the log l consists of exactly the steps x, in order
SameStep(ev, x) == ev.k = x[1] /\ ev.a = x[2] /\ ev.b = x[3]
SameSteps(l, x) == Len(l) = Len(x) /\ \A i \in 1..Len(x) : SameStep(l[i], x[i])

FailedAt(l, k, a) ==
    \E i \in 1..Len(l) : l[i].k = k /\ l[i].a = a /\ ~l[i].ok

(* C11: a suspend that returns 0 sets suspended, a resume that returns 0   *)
(* clears it, a failed suspend or resume leaves it unchanged; a suspend    *)
(* directly after a successful suspend is refused without enter-sleep, and *)
(* a resume directly after a successful suspend issues exit-sleep.         *)
C11_SuspendedTracksSleep ==
    [][ /\ (op' = "suspend" /\ ret' = 0) => suspended'
        /\ (op' = "resume" /\ ret' = 0) => ~suspended'
        /\ (op' \in {"suspend", "resume"} /\ ret' # 0) => suspended' = suspended
        /\ (op = "suspend" /\ ret = 0 /\ op' = "suspend")
              => (ret' # 0 /\ NoBus(log'))
        /\ (op = "suspend" /\ ret = 0 /\ op' = "resume")
              => Has(log', "dcs", "exit_sleep_mode")
      ]_vars

(* C12: a lifecycle operation that returns 0 made no supply, bus or        *)
(* backlight call that failed, and an enable that returns 0 exited sleep   *)
(* (its nested resume was not rejected).                                   *)
C12_NoSilentSuccess ==
    (op \in {"prepare", "unprepare", "enable", "disable", "suspend", "resume"}
        /\ ret = 0)
      => /\ Clean(log)
         /\ op = "enable" => ~SleepExitFailed

\* thread t runs a lifecycle handler and has made a bus transfer in it
OnBus(t) == th[t].op \in {"enable", "disable"} /\ th[t].cmds > 0

(* C13: of two lifecycle calls running at the same time at most one is     *)
(* past its precondition check and issuing bus commands; no two threads    *)
(* are both inside a lifecycle handler with bus transfers already made.    *)
C13_NoInterleaving ==
    \A t1, t2 \in Threads : (t1 # t2) => ~(OnBus(t1) /\ OnBus(t2))

\* the brightness write of update_status is never reached: the handler
\* tests prepared, which no statement of the driver sets
BrightnessWriteUnreached == \A t \in Threads : th[t].pc # "bl_write"

\* get_modes left the driver and the hardware alone in this step
GetModesIsQuiet ==
    /\ <<prepared, enabled, suspended>>' = <<prepared, enabled, suspended>>
    /\ <<supply, reset_val, lpm, brightness>>' = <<supply, reset_val, lpm, brightness>>
    /\ \A i \in 1..Len(log') : log'[i].k \notin {"reg", "gpio", "dcs", "gen", "bl", "mode"}

RGBOrder ==
    <<"MEDIA_BUS_FMT_RGB888_1X24", "MEDIA_BUS_FMT_RGB666_1X18",
      "MEDIA_BUS_FMT_RGB565_1X16">>

(* C15 as stated: get_modes succeeds in every lifecycle state, leaves the  *)
(* three flags unchanged, performs no supply, reset-line or bus action and *)
(* reports the bus formats in the order RGB888, RGB666, RGB565.            *)
C15_GetModesAlwaysSucceeds ==
    [][ op' = "get_modes"
          => /\ ret' >= 0
             /\ GetModesIsQuiet
             /\ connector'.bus_formats = RGBOrder
      ]_vars

(* C15 amended: get_modes never touches the flags, the supplies, the reset *)
(* line or the bus; when the mode can be duplicated it returns 1, adds one *)
(* mode and reports the bus formats in the order RGB888, RGB666, RGB565;   *)
(* when the duplication fails it returns -ENOMEM and leaves the connector  *)
(* as it was.                                                              *)
C15_GetModes ==
    [][ op' = "get_modes"
          => /\ GetModesIsQuiet
             /\ Len(log') = 1 /\ log'[1].k = "mem"
             /\ log'[1].ok
                  => /\ ret' = 1
                     /\ connector'.modes = connector.modes + 1
                     /\ connector'.bus_formats = RGBOrder
                     /\ connector'.width_mm = 190 /\ connector'.height_mm = 59
             /\ ~log'[1].ok
                  => /\ ret' = -12
                     /\ connector' = connector
      ]_vars

C15_Witness ==
    /\ op = "get_modes" /\ ret = 1 /\ enabled /\ supply > 0
    /\ connector.modes = 2 /\ connector.bus_formats = RGBOrder

\* the hardware actions of a complete enable, in the order the claim gives
EnableSteps ==
    << <<"dcs", "soft_reset", 0>>, <<"mode", "lpm", TRUE>>,
       <<"dcs", "enter_sleep_mode", 0>>, <<"dcs", "set_display_off", 0>> >>
    \o [i \in 1..MCSLen |-> <<"gen", mcs_am40001280[i][1], mcs_am40001280[i][2]>>]
    \o << <<"dcs", "exit_sleep_mode", 0>>, <<"delay", "ms", 5>>,
          <<"dcs", "set_display_on", 0>>, <<"bl", "enable", 0>> >>

(* C16: an enable that returns 0 performed exactly: soft-reset, switch to  *)
(* low-power mode, enter-sleep, display-off, the command set in table      *)
(* order, exit-sleep, the 5 ms settle delay, display-on, backlight enable, *)
(* each once and in this order, and the panel is marked enabled.           *)
C16_EnableOrder ==
    (op = "enable" /\ ret = 0) => (SameSteps(log, EnableSteps) /\ enabled)

(* C17: when the sleep-entry step of disable fails, disable has switched   *)
(* the bus back to low-power mode, returns the sleep-entry error and the   *)
(* panel is still enabled; enabled is cleared only when sleep entry        *)
(* succeeded.                                                              *)
C17_DisableSleepEntryFails ==
    [][ /\ (op' = "disable" /\ FailedAt(log', "dcs", "enter_sleep_mode"))
              => /\ lpm'
                 /\ ret' = log'[First(log', "dcs", "enter_sleep_mode")].r
                 /\ enabled'
        /\ (op' = "disable" /\ enabled /\ ~enabled')
              => (Has(log', "dcs", "enter_sleep_mode")
                  /\ ~FailedAt(log', "dcs", "enter_sleep_mode"))
      ]_vars

(* C18: when the backlight-disable step of disable fails, disable returns  *)
(* that error, the panel is still enabled, the signaling mode is unchanged *)
(* and no display-off or enter-sleep command is issued.                    *)
C18_DisableBacklightFails ==
    [][ (op' = "disable" /\ FailedAt(log', "bl", "disable"))
          => /\ ret' = log'[First(log', "bl", "disable")].r
             /\ enabled'
             /\ lpm' = lpm /\ ~Has(log', "mode", "lpm")
             /\ NoBus(log')
      ]_vars

(* C19: when enabling the supplies fails during prepare, prepare returns   *)
(* that error, the lifecycle flags and the supply count are unchanged, the *)
(* panel is not prepared and the reset line is not touched; when prepare   *)
(* returns 0 the supplies were enabled before the reset line was           *)
(* deasserted.                                                             *)
C19_PrepareSupplyFails ==
    [][ /\ (op' = "prepare" /\ FailedAt(log', "reg", "enable"))
              => /\ ret' = log'[First(log', "reg", "enable")].r
                 /\ ret' < 0
                 /\ <<prepared, enabled, suspended>>' = <<prepared, enabled, suspended>>
                 /\ ~prepared'
                 /\ supply' = supply
                 /\ ~Has(log', "gpio", "reset") /\ reset_val' = reset_val
        /\ (op' = "prepare" /\ ret' = 0)
              => /\ First(log', "reg", "enable") = 1
                 /\ log'[1].ok
                 /\ supply' = supply + 1
                 /\ reset_pin => (First(log', "gpio", "reset") > 1
                                  /\ reset_val' = 0)
      ]_vars

C19_Witness ==
    /\ op = "prepare"
    /\ reset_pin
    /\ ret < 0
    /\ FailedAt(log, "reg", "enable")
    /\ supply = 1
    /\ reset_val = 0

\* the hardware actions of unprepare with a reset line
UnprepareSteps ==
    << <<"gpio", "reset", 1>>, <<"delay", "ms", 15>>, <<"gpio", "reset", 0>>,
       <<"reg", "disable", 0>> >>

(* C20: an unprepare of a panel the host has prepared, once past its       *)
(* precondition, asserts the reset line, deasserts it and only then        *)
(* disables the supplies; when the supply disable fails its error is       *)
(* returned and the panel is still marked prepared, when it succeeds       *)
(* prepared is false afterwards.                                           *)
C20_UnprepareOrder ==
    [][ (host_prepared /\ op' = "unprepare" /\ log' # <<>>)
          => /\ reset_pin => SameSteps(log', UnprepareSteps)
             /\ ~reset_pin => SameSteps(log', << <<"reg", "disable", 0>> >>)
             /\ FailedAt(log', "reg", "disable")
                  => (ret' = log'[Len(log')].r /\ prepared')
             /\ ~FailedAt(log', "reg", "disable") => (ret' = 0 /\ ~prepared')
      ]_vars

\* the time, in ticks, left until start + min_ms when the wait was called
Remainder == arg.start + arg.min_ms * TicksPerMs - arg.now

(* C21: a wait with min_ms > 0 issues enter-idle first, then sleeps for    *)
(* the remainder of start + min_ms - now when it is positive (rounded up   *)
(* to the next whole millisecond, never shorter than the remainder) and    *)
(* not at all otherwise, then issues exit-idle; when enter-idle fails the  *)
(* error is returned with no sleep and no exit-idle; with min_ms = 0 the   *)
(* call is refused and issues no command.                                  *)
C21_WaitAtLeast ==
    op = "wait" =>
        /\ arg.min_ms = 0 => (ret # 0 /\ log = <<>>)
        /\ arg.min_ms > 0 =>
             /\ log # <<>>
             /\ log[1].k = "dcs" /\ log[1].a = "enter_idle_mode"
             /\ ~log[1].ok => (Len(log) = 1 /\ ret = log[1].r /\ ret < 0)
             /\ log[1].ok =>
                  /\ Remainder > 0 =>
                       /\ Len(log) = 3
                       /\ log[2].k = "delay"
                       /\ log[2].b * TicksPerMs >= Remainder
                       /\ log[2].b * TicksPerMs <= Remainder + TicksPerMs
                  /\ Remainder <= 0 => Len(log) = 2
                  /\ log[Len(log)].k = "dcs"
                  /\ log[Len(log)].a = "exit_idle_mode"
                  /\ ret = (IF log[Len(log)].ok THEN 0 ELSE log[Len(log)].r)

C21_Witness ==
    /\ op = "wait" /\ arg.min_ms = 2 /\ Remainder = 3 /\ ret = 0
    /\ Len(log) = 3 /\ log[2].k = "delay" /\ log[2].b = 2

(* C22: the supplies are balanced: the number of successful supply enables *)
(* minus the number of successful supply disables is always 0 or 1.        *)
C22_SupplyBalanced == supply \in {0, 1}

(* C23: shutdown of a panel that the host has prepared and that is enabled *)
(* issues backlight disable, display-off and enter-sleep before it touches *)
(* the reset line or disables the supplies, and ends with the panel        *)
(* neither enabled nor prepared.                                           *)
C23_ShutdownOrder ==
    [][ (enabled /\ host_prepared /\ op' = "shutdown")
          => /\ Has(log', "bl", "disable")
             /\ Has(log', "dcs", "set_display_off")
             /\ Has(log', "dcs", "enter_sleep_mode")
             /\ Has(log', "reg", "disable")
             /\ First(log', "bl", "disable") < First(log', "dcs", "set_display_off")
             /\ First(log', "dcs", "set_display_off")
                    < First(log', "dcs", "enter_sleep_mode")
             /\ First(log', "dcs", "enter_sleep_mode") < First(log', "reg", "disable")
             /\ reset_pin => First(log', "dcs", "enter_sleep_mode")
                                < First(log', "gpio", "reset")
             /\ ~enabled' /\ ~prepared'
      ]_vars

(* C24: a disable called with the bus in low-power mode returns with the   *)
(* bus in low-power mode, on success and on every failure path.            *)
C24_DisableRestoresLpm ==
    [][ (op' = "disable" /\ lpm) => lpm' ]_vars

\* the cached brightness is within the declared range, and the one
\* statement that could take it out of the range (the store of the raw
\* 16-bit value read from the panel) is never reached: get_brightness
\* tests prepared, which no statement of the driver sets
BrightnessInRange == brightness \in 0..BL_MAX_BRIGHTNESS
BrightnessReadUnreached == ~Has(log, "dcs", "get_display_brightness")

====
